---- MODULE Spec2Model ----
(***************************************************************************)
(* PCA9534 / PCA9534A 8-bit I2C I/O expander driver (src/src/PCA9534.c,    *)
(* src/src/include/PCA9534.h) against a simulated transport and device.    *)
(*                                                                         *)
(* Every driver function is an operator over a context record c:           *)
(*   c.Handler  the PCA9534_Handler_t the call works on                    *)
(*   c.regs     the simulated device's four registers                      *)
(*   c.ptr      the simulated device's register pointer                    *)
(*   c.calls    the transport calls the function has made so far           *)
(*   c.rets     the values the transport will return, in call order        *)
(* and yields [res |-> PCA9534_Result_t, c |-> the context afterwards].    *)
(* An action runs one whole public function and stores what it did.        *)
(***************************************************************************)
EXTENDS Integers, Sequences, FiniteSets, TLC

\* Handler   the caller's PCA9534_Handler_t
\* regs, ptr the simulated device: its registers and its register pointer
\* call      the public function called last and its arguments
\* result    what that call returned
\* calls     the transport calls that call made, in order
\* everInit  whether some PCA9534_Init has returned PCA9534_OK so far
\* toggles   how many PCA9534_Toggle calls with the same Mask have just returned
\*           PCA9534_OK one after the other (0, 1, or 2 for two and more)
\* task      for each of two execution contexts that share the handler, where
\*           its call of PCA9534_WriteOne stands: the label of the transport
\*           call it makes next (pc), its arguments, its local Reg, its result,
\*           and whether another context's register write has fallen between
\*           its register read and its register write (overlap)
VARIABLES Handler, regs, ptr, calls, call, result, everInit, toggles, task

vars == <<Handler, regs, ptr, calls, call, result, everInit, toggles, task>>

(* ------------------------------------------------------------------------ *)
(* Constants of the program                                                 *)
(* ------------------------------------------------------------------------ *)
PCA9534_OK == 0
PCA9534_FAIL == 1
PCA9534_INVALID_PARAM == 2

PCA9534_DEVICE_PCA9534 == 0
PCA9534_DEVICE_PCA9534A == 1

PCA9534_I2C_ADDRESS_BASE == 32
PCA9534A_I2C_ADDRESS_BASE == 56

PCA9534_REG_INPUT_PORT == 0
PCA9534_REG_OUTPUT_PORT == 1
PCA9534_REG_POLARITY_INVERT == 2
PCA9534_REG_CONFIGURATION == 3

(* ------------------------------------------------------------------------ *)
(* Bounds of the model                                                      *)
(* ------------------------------------------------------------------------ *)
\* How many of SampleBytes the 8-bit masks and data values are drawn from.
NumMasks == 6
\* How many of the transport's negative error codes (-1, -2, ...) are tried.
NumErrCodes == 1

SampleBytes == <<1, 0, 255, 128, 85, 170, 254, 127, 15, 240, 51, 204, 3, 192>>

Min(a, b) == IF a < b THEN a ELSE b

Byte == 0..255
MaskVals == {SampleBytes[i] : i \in 1..Min(NumMasks, Len(SampleBytes))}
\* A device tag the driver does not know.
BadDevice == PCA9534_DEVICE_PCA9534A + 1
\* Values of a uint8_t used as a flag (Dir, Value): zero and non-zero.
FlagVals == {0, 1}

(* ------------------------------------------------------------------------ *)
(* C integer arithmetic on uint8_t                                          *)
(* ------------------------------------------------------------------------ *)
\* Conversion of an int to uint8_t.
ToU8(x) == x % 256

\* 1 << n on int.
Shl1(n) == 2 ^ n

\* Bit i of a non-negative integer.
Bit(x, i) == (x \div (2 ^ i)) % 2

\* The low 8 bits of a & b, a | b, a ^ b; the operands are taken modulo 256,
\* which is what the conversion of the int result to uint8_t keeps.
BitAnd(a, b) ==
  LET x == ToU8(a)
      y == ToU8(b)
      f[i \in 0..8] == IF i = 8 THEN 0
                       ELSE (IF Bit(x, i) = 1 /\ Bit(y, i) = 1 THEN 2 ^ i ELSE 0) + f[i + 1]
  IN f[0]

BitOr(a, b) ==
  LET x == ToU8(a)
      y == ToU8(b)
      f[i \in 0..8] == IF i = 8 THEN 0
                       ELSE (IF Bit(x, i) = 1 \/ Bit(y, i) = 1 THEN 2 ^ i ELSE 0) + f[i + 1]
  IN f[0]

BitXor(a, b) ==
  LET x == ToU8(a)
      y == ToU8(b)
      f[i \in 0..8] == IF i = 8 THEN 0
                       ELSE (IF Bit(x, i) # Bit(y, i) THEN 2 ^ i ELSE 0) + f[i + 1]
  IN f[0]

\* ~x on int (two's complement).
BitNot(x) == (-x) - 1

(* ------------------------------------------------------------------------ *)
(* The transport and the simulated device behind it                         *)
(* ------------------------------------------------------------------------ *)
\* What a transport function may return: 0 on success, a negative code on failure.
RetVals == (-NumErrCodes)..0

\* The return values of the next n transport calls.  Entries past the first
\* failure are never consumed by the driver's own early returns; they stay 0
\* so that one behaviour of the transport is one sequence.
RetSeqsOf ==
  [n \in 0..4 |->
     {s \in [1..n -> RetVals] : \A i \in 1..n : \A j \in 1..n : (i < j /\ s[i] < 0) => s[j] = 0}]

RetSeqs(n) == RetSeqsOf[n]

NextRet(c) == IF c.rets = <<>> THEN 0 ELSE Head(c.rets)
RestRets(c) == IF c.rets = <<>> THEN <<>> ELSE Tail(c.rets)

\* Whether the next transport call moves its bytes.  A call that returns 0 has
\* moved them and a call that returns a negative code has not.  The header
\* gives a positive return no meaning: a transport that returns one has moved
\* the bytes or not, as c.moved says (c.moved runs along c.rets; an empty
\* c.moved stands for no transfer).
Moves(c) ==
  LET r == NextRet(c)
  IN IF r = 0 THEN TRUE
     ELSE IF r < 0 THEN FALSE
     ELSE c.moved # <<>> /\ Head(c.moved)

\* c after the next transport call, recorded as x, has taken its return value.
Consumed(c, x) ==
  [c EXCEPT !.rets = RestRets(c),
            !.moved = IF @ = <<>> THEN <<>> ELSE Tail(@),
            !.calls = Append(@, x)]

Ctx(rets) ==
  [Handler |-> Handler, regs |-> regs, ptr |-> ptr, calls |-> <<>>, rets |-> rets,
   moved |-> <<>>]

\* Handler->Platform.Init()
Platform_Init(c) ==
  LET r == NextRet(c)
  IN [ret |-> r,
      c |-> Consumed(c, [fn |-> "Init", Address |-> 0, Data |-> <<>>, Len |-> 0, ret |-> r])]

\* Handler->Platform.DeInit()
Platform_DeInit(c) ==
  LET r == NextRet(c)
  IN [ret |-> r,
      c |-> Consumed(c, [fn |-> "DeInit", Address |-> 0, Data |-> <<>>, Len |-> 0, ret |-> r])]

\* Handler->Platform.Send(Address, Data, Len): when the bytes move, the first
\* byte sets the device's register pointer and a second byte is stored in that
\* register (the input port is read-only).
Platform_Send(c, Address, Data) ==
  LET r == NextRet(c)
      p == Data[1] % 4
      done == Consumed(c, [fn |-> "Send", Address |-> Address, Data |-> Data,
                           Len |-> Len(Data), ret |-> r])
  IN [ret |-> r,
      c |-> IF ~Moves(c) THEN done
            ELSE [done EXCEPT !.ptr = p,
                              !.regs = IF Len(Data) = 2 /\ p # PCA9534_REG_INPUT_PORT
                                       THEN [@ EXCEPT ![p] = Data[2]]
                                       ELSE @]]

\* Handler->Platform.Receive(Address, Data, 1): when the byte moves, yields the
\* register the pointer selects; otherwise the buffer is left as it was.
Platform_Receive(c, Address, Buffer) ==
  LET r == NextRet(c)
      got == IF Moves(c) THEN c.regs[c.ptr] ELSE Buffer
  IN [ret |-> r,
      Data |-> got,
      c |-> Consumed(c, [fn |-> "Receive", Address |-> Address,
                         Data |-> IF Moves(c) THEN <<got>> ELSE <<>>,
                         Len |-> 1, ret |-> r])]

(* ------------------------------------------------------------------------ *)
(* Private functions                                                        *)
(* ------------------------------------------------------------------------ *)
\* Faulty variant of PCA9534_WriteReg: the length passed to Send is 1, so the
\* data byte is never sent.
WriteReg_ShortSend(c, Address, Data) ==
  LET s == Platform_Send(c, c.Handler.AddressI2C, <<Address>>)
  IN IF s.ret < 0 THEN [res |-> PCA9534_FAIL, c |-> s.c]
     ELSE [res |-> PCA9534_OK, c |-> s.c]

PCA9534_WriteReg(c, Address, Data) ==
  LET s == Platform_Send(c, c.Handler.AddressI2C, <<Address, Data>>)
  IN IF s.ret < 0 THEN [res |-> PCA9534_FAIL, c |-> s.c]
     ELSE [res |-> PCA9534_OK, c |-> s.c]

\* Faulty variant of PCA9534_ReadReg: the result of Send is looked at only
\* after Receive has been called.
ReadReg_LateCheck(c, Address, Data) ==
  LET s == Platform_Send(c, c.Handler.AddressI2C, <<Address>>)
      r == Platform_Receive(s.c, s.c.Handler.AddressI2C, Data)
  IN IF s.ret < 0 \/ r.ret < 0 THEN [res |-> PCA9534_FAIL, Data |-> r.Data, c |-> r.c]
     ELSE [res |-> PCA9534_OK, Data |-> r.Data, c |-> r.c]

\* Faulty variant of PCA9534_ReadReg: every non-zero return of Send and of
\* Receive is taken as a failure (!= 0 in place of < 0).
ReadReg_NonZeroFails(c, Address, Data) ==
  LET s == Platform_Send(c, c.Handler.AddressI2C, <<Address>>)
  IN IF s.ret # 0 THEN [res |-> PCA9534_FAIL, Data |-> Data, c |-> s.c]
     ELSE LET r == Platform_Receive(s.c, s.c.Handler.AddressI2C, Data)
          IN IF r.ret # 0 THEN [res |-> PCA9534_FAIL, Data |-> r.Data, c |-> r.c]
             ELSE [res |-> PCA9534_OK, Data |-> r.Data, c |-> r.c]

PCA9534_ReadReg(c, Address, Data) ==
  LET s == Platform_Send(c, c.Handler.AddressI2C, <<Address>>)
  IN IF s.ret < 0 THEN [res |-> PCA9534_FAIL, Data |-> Data, c |-> s.c]
     ELSE LET r == Platform_Receive(s.c, s.c.Handler.AddressI2C, Data)
          IN IF r.ret < 0 THEN [res |-> PCA9534_FAIL, Data |-> r.Data, c |-> r.c]
             ELSE [res |-> PCA9534_OK, Data |-> r.Data, c |-> r.c]

(* ------------------------------------------------------------------------ *)
(* Public functions                                                         *)
(* ------------------------------------------------------------------------ *)
\* Faulty variant of PCA9534_SetAddressI2C: the range check is Address > 8.
SetAddressI2C_WideCheck(c, Address) ==
  IF Address > 8 THEN [res |-> PCA9534_INVALID_PARAM, c |-> c]
  ELSE IF c.Handler.Device = PCA9534_DEVICE_PCA9534
    THEN [res |-> PCA9534_OK,
          c |-> [c EXCEPT !.Handler.AddressI2C = ToU8(BitOr(PCA9534_I2C_ADDRESS_BASE, Address))]]
  ELSE IF c.Handler.Device = PCA9534_DEVICE_PCA9534A
    THEN [res |-> PCA9534_OK,
          c |-> [c EXCEPT !.Handler.AddressI2C = ToU8(BitOr(PCA9534A_I2C_ADDRESS_BASE, Address))]]
  ELSE [res |-> PCA9534_INVALID_PARAM, c |-> c]

PCA9534_SetAddressI2C(c, Address) ==
  IF Address > 7 THEN [res |-> PCA9534_INVALID_PARAM, c |-> c]
  ELSE IF c.Handler.Device = PCA9534_DEVICE_PCA9534
    THEN [res |-> PCA9534_OK,
          c |-> [c EXCEPT !.Handler.AddressI2C = ToU8(BitOr(PCA9534_I2C_ADDRESS_BASE, Address))]]
  ELSE IF c.Handler.Device = PCA9534_DEVICE_PCA9534A
    THEN [res |-> PCA9534_OK,
          c |-> [c EXCEPT !.Handler.AddressI2C = ToU8(BitOr(PCA9534A_I2C_ADDRESS_BASE, Address))]]
  ELSE [res |-> PCA9534_INVALID_PARAM, c |-> c]

PCA9534_Init(c, HandlerSet, Device, Address) ==
  IF ~HandlerSet THEN [res |-> PCA9534_INVALID_PARAM, c |-> c]
  ELSE IF Device # PCA9534_DEVICE_PCA9534 /\ Device # PCA9534_DEVICE_PCA9534A
    THEN [res |-> PCA9534_INVALID_PARAM, c |-> c]
  ELSE
    LET c1 == [c EXCEPT !.Handler.Device = Device]
        a == PCA9534_SetAddressI2C(c1, Address)
    IN IF a.res # PCA9534_OK THEN [res |-> PCA9534_INVALID_PARAM, c |-> a.c]
       ELSE IF ~a.c.Handler.Platform.Send \/ ~a.c.Handler.Platform.Receive
         THEN [res |-> PCA9534_INVALID_PARAM, c |-> a.c]
       ELSE
         LET i == IF a.c.Handler.Platform.Init THEN Platform_Init(a.c)
                  ELSE [ret |-> 0, c |-> a.c]
         IN IF i.ret < 0 THEN [res |-> PCA9534_FAIL, c |-> i.c]
            ELSE
              LET w1 == PCA9534_WriteReg(i.c, PCA9534_REG_OUTPUT_PORT, 255)
              IN IF w1.res # PCA9534_OK THEN [res |-> PCA9534_FAIL, c |-> w1.c]
                 ELSE
                   LET w2 == PCA9534_WriteReg(w1.c, PCA9534_REG_POLARITY_INVERT, 0)
                   IN IF w2.res # PCA9534_OK THEN [res |-> PCA9534_FAIL, c |-> w2.c]
                      ELSE
                        LET w3 == PCA9534_WriteReg(w2.c, PCA9534_REG_CONFIGURATION, 255)
                        IN IF w3.res # PCA9534_OK THEN [res |-> PCA9534_FAIL, c |-> w3.c]
                           ELSE [res |-> PCA9534_OK, c |-> w3.c]

PCA9534_DeInit(c, HandlerSet) ==
  IF ~HandlerSet THEN [res |-> PCA9534_INVALID_PARAM, c |-> c]
  ELSE IF c.Handler.Platform.DeInit
    THEN LET d == Platform_DeInit(c)
         IN [res |-> IF d.ret >= 0 THEN PCA9534_OK ELSE PCA9534_FAIL, c |-> d.c]
  ELSE [res |-> PCA9534_OK, c |-> c]

\* Faulty variant of PCA9534_SetDir: Dir is written without being complemented.
SetDir_NoComplement(c, Dir) ==
  LET w == PCA9534_WriteReg(c, PCA9534_REG_CONFIGURATION, Dir)
  IN IF w.res # PCA9534_OK THEN [res |-> PCA9534_FAIL, c |-> w.c]
     ELSE [res |-> PCA9534_OK, c |-> w.c]

PCA9534_SetDir(c, Dir) ==
  LET Dir1 == ToU8(BitNot(Dir))
      w == PCA9534_WriteReg(c, PCA9534_REG_CONFIGURATION, Dir1)
  IN IF w.res # PCA9534_OK THEN [res |-> PCA9534_FAIL, c |-> w.c]
     ELSE [res |-> PCA9534_OK, c |-> w.c]

PCA9534_SetDirOne(c, Pos, Dir) ==
  IF Pos > 7 THEN [res |-> PCA9534_INVALID_PARAM, c |-> c]
  ELSE
    LET r == PCA9534_ReadReg(c, PCA9534_REG_CONFIGURATION, 0)
    IN IF r.res # PCA9534_OK THEN [res |-> PCA9534_FAIL, c |-> r.c]
       ELSE
         LET Reg == IF Dir # 0 THEN ToU8(BitAnd(r.Data, BitNot(Shl1(Pos))))
                    ELSE ToU8(BitOr(r.Data, Shl1(Pos)))
         IN PCA9534_SetDir(r.c, Reg)

PCA9534_Read(c, DataSet) ==
  IF ~DataSet THEN [res |-> PCA9534_INVALID_PARAM, c |-> c]
  ELSE
    LET r == PCA9534_ReadReg(c, PCA9534_REG_INPUT_PORT, 0)
    IN IF r.res # PCA9534_OK THEN [res |-> PCA9534_FAIL, c |-> r.c]
       ELSE [res |-> PCA9534_OK, c |-> r.c]

PCA9534_Write(c, Data) ==
  LET w == PCA9534_WriteReg(c, PCA9534_REG_OUTPUT_PORT, Data)
  IN IF w.res # PCA9534_OK THEN [res |-> PCA9534_FAIL, c |-> w.c]
     ELSE [res |-> PCA9534_OK, c |-> w.c]

\* Faulty variant of PCA9534_WriteOne: the branches of if (Value) are swapped.
WriteOne_Swapped(c, Pos, Value) ==
  IF Pos > 7 THEN [res |-> PCA9534_INVALID_PARAM, c |-> c]
  ELSE
    LET r == PCA9534_ReadReg(c, PCA9534_REG_OUTPUT_PORT, 0)
    IN IF r.res # PCA9534_OK THEN [res |-> PCA9534_FAIL, c |-> r.c]
       ELSE
         LET Reg == IF Value # 0 THEN ToU8(BitAnd(r.Data, BitNot(Shl1(Pos))))
                    ELSE ToU8(BitOr(r.Data, Shl1(Pos)))
         IN PCA9534_Write(r.c, Reg)

PCA9534_WriteOne(c, Pos, Value) ==
  IF Pos > 7 THEN [res |-> PCA9534_INVALID_PARAM, c |-> c]
  ELSE
    LET r == PCA9534_ReadReg(c, PCA9534_REG_OUTPUT_PORT, 0)
    IN IF r.res # PCA9534_OK THEN [res |-> PCA9534_FAIL, c |-> r.c]
       ELSE
         LET Reg == IF Value # 0 THEN ToU8(BitOr(r.Data, Shl1(Pos)))
                    ELSE ToU8(BitAnd(r.Data, BitNot(Shl1(Pos))))
         IN PCA9534_Write(r.c, Reg)

\* Faulty variant of PCA9534_Toggle: Reg |= Mask in place of Reg ^= Mask.
Toggle_Or(c, Mask) ==
  LET r == PCA9534_ReadReg(c, PCA9534_REG_OUTPUT_PORT, 0)
  IN IF r.res # PCA9534_OK THEN [res |-> PCA9534_FAIL, c |-> r.c]
     ELSE LET Reg == ToU8(BitOr(r.Data, Mask))
          IN PCA9534_Write(r.c, Reg)

PCA9534_Toggle(c, Mask) ==
  LET r == PCA9534_ReadReg(c, PCA9534_REG_OUTPUT_PORT, 0)
  IN IF r.res # PCA9534_OK THEN [res |-> PCA9534_FAIL, c |-> r.c]
     ELSE LET Reg == ToU8(BitXor(r.Data, Mask))
          IN PCA9534_Write(r.c, Reg)

\* Faulty variant of PCA9534_ToggleOne: Pos is not checked.
ToggleOne_NoCheck(c, Pos) ==
  LET Mask == ToU8(Shl1(Pos))
  IN PCA9534_Toggle(c, Mask)

\* Faulty variant of PCA9534_ToggleOne: the mask is Pos itself, not 1 << Pos.
ToggleOne_MaskPos(c, Pos) ==
  IF Pos > 7 THEN [res |-> PCA9534_INVALID_PARAM, c |-> c]
  ELSE LET Mask == ToU8(Pos)
       IN PCA9534_Toggle(c, Mask)

PCA9534_ToggleOne(c, Pos) ==
  IF Pos > 7 THEN [res |-> PCA9534_INVALID_PARAM, c |-> c]
  ELSE LET Mask == ToU8(Shl1(Pos))
       IN PCA9534_Toggle(c, Mask)

(* ------------------------------------------------------------------------ *)
(* Actions: one call of one public function (or linking macro)              *)
(* ------------------------------------------------------------------------ *)
\* The state after a call of function fn with arguments a, b and d that ended as r.
\* (A return value the call never asked the transport for is left 0, so that
\* one run of the call is one transition.)
Returned(fn, a, b, d, r) ==
  /\ \A i \in 1..Len(r.c.rets) : r.c.rets[i] = 0
  /\ Handler' = r.c.Handler
  /\ regs' = r.c.regs
  /\ ptr' = r.c.ptr
  /\ calls' = r.c.calls
  /\ call' = [fn |-> fn, a |-> a, b |-> b, c |-> d]
  /\ result' = r.res
  /\ everInit' = (everInit \/ (fn = "Init" /\ r.res = PCA9534_OK))
  /\ toggles' = IF fn # "Toggle" \/ r.res # PCA9534_OK THEN 0
                ELSE IF call.fn = "Toggle" /\ call.a = a /\ toggles > 0 THEN 2
                ELSE 1
  /\ UNCHANGED task

\* PCA9534_PLATFORM_LINK_INIT .. _RECEIVE: FUNC is a function (TRUE) or NULL (FALSE).
\* The platform dependent layer is set up before the first call of the driver
\* (PCA9534.h, note of PCA9534_Init).
Linked(field, FUNC) ==
  /\ call.fn \in {"none", "Link"}
  /\ Handler' = [Handler EXCEPT !.Platform[field] = FUNC]
  /\ call' = [fn |-> "Link", a |-> 0, b |-> 0, c |-> 0]
  /\ calls' = <<>>
  /\ result' = PCA9534_OK
  /\ toggles' = 0
  /\ UNCHANGED <<regs, ptr, everInit, task>>

PLATFORM_LINK_INIT == \E FUNC \in BOOLEAN : Linked("Init", FUNC)
PLATFORM_LINK_DEINIT == \E FUNC \in BOOLEAN : Linked("DeInit", FUNC)
PLATFORM_LINK_SEND == \E FUNC \in BOOLEAN : Linked("Send", FUNC)
PLATFORM_LINK_RECEIVE == \E FUNC \in BOOLEAN : Linked("Receive", FUNC)

\* Calling through a NULL Send or Receive is not a call the program survives:
\* the bus functions other than Init are called with both linked, or with a
\* parameter that makes them return before any transport call.
BusReady == Handler.Platform.Send /\ Handler.Platform.Receive

\* call.a = 1 when the Handler pointer is non-NULL, call.b = Device, call.c = Address
CallInit(Devices, Pins) ==
  \E HandlerSet \in BOOLEAN, Device \in Devices, Address \in Pins, rets \in RetSeqs(4) :
    Returned("Init", IF HandlerSet THEN 1 ELSE 0, Device, Address,
             PCA9534_Init(Ctx(rets), HandlerSet, Device, Address))

\* call.a = 1 when the Handler pointer is non-NULL
CallDeInit ==
  \E HandlerSet \in BOOLEAN, rets \in RetSeqs(1) :
    Returned("DeInit", IF HandlerSet THEN 1 ELSE 0, 0, 0,
             PCA9534_DeInit(Ctx(rets), HandlerSet))

CallSetAddressI2C(Pins) ==
  \E Address \in Pins :
    Returned("SetAddressI2C", Address, 0, 0, PCA9534_SetAddressI2C(Ctx(<<>>), Address))

CallSetDir(Dirs) ==
  \E Dir \in Dirs, rets \in RetSeqs(1) :
    /\ BusReady
    /\ Returned("SetDir", Dir, 0, 0, PCA9534_SetDir(Ctx(rets), Dir))

CallSetDirOne(Positions, Dirs) ==
  \E Pos \in Positions, Dir \in Dirs, rets \in RetSeqs(3) :
    /\ BusReady \/ Pos > 7
    /\ Returned("SetDirOne", Pos, Dir, 0, PCA9534_SetDirOne(Ctx(rets), Pos, Dir))

\* call.a = 1 when the Data pointer is non-NULL
CallRead ==
  \E DataSet \in BOOLEAN, rets \in RetSeqs(2) :
    /\ BusReady \/ ~DataSet
    /\ Returned("Read", IF DataSet THEN 1 ELSE 0, 0, 0, PCA9534_Read(Ctx(rets), DataSet))

CallWrite(Datas) ==
  \E Data \in Datas, rets \in RetSeqs(1) :
    /\ BusReady
    /\ Returned("Write", Data, 0, 0, PCA9534_Write(Ctx(rets), Data))

CallWriteOne(Positions, Values) ==
  \E Pos \in Positions, Value \in Values, rets \in RetSeqs(3) :
    /\ BusReady \/ Pos > 7
    /\ Returned("WriteOne", Pos, Value, 0, PCA9534_WriteOne(Ctx(rets), Pos, Value))

CallToggle(Masks) ==
  \E Mask \in Masks, rets \in RetSeqs(3) :
    /\ BusReady
    /\ Returned("Toggle", Mask, 0, 0, PCA9534_Toggle(Ctx(rets), Mask))

CallToggleOne(Positions) ==
  \E Pos \in Positions, rets \in RetSeqs(3) :
    /\ BusReady \/ Pos > 7
    /\ Returned("ToggleOne", Pos, 0, 0, PCA9534_ToggleOne(Ctx(rets), Pos))

(* ------------------------------------------------------------------------ *)
(* Spec: the whole driver from a zeroed handler, every function, arguments   *)
(* from the small sample sets                                               *)
(* ------------------------------------------------------------------------ *)
\* PCA9534_Handler_t Handler = {0}
ZeroHandler ==
  [Device |-> 0, AddressI2C |-> 0,
   Platform |-> [Init |-> FALSE, DeInit |-> FALSE, Send |-> FALSE, Receive |-> FALSE]]

\* The device's registers after power-on: output 0xFF, polarity 0x00,
\* configuration 0xFF; the input port shows the pins, here all high.
PowerOnRegs ==
  (PCA9534_REG_INPUT_PORT :> 255) @@ (PCA9534_REG_OUTPUT_PORT :> 255) @@
  (PCA9534_REG_POLARITY_INVERT :> 0) @@ (PCA9534_REG_CONFIGURATION :> 255)

NoCall == [fn |-> "none", a |-> 0, b |-> 0, c |-> 0]

\* The execution contexts and the state of one that is in no call.
Procs == {1, 2}
NoTask ==
  [pc |-> "idle", Pos |-> 0, Value |-> 0, Reg |-> 0, res |-> PCA9534_OK, overlap |-> FALSE]

Init ==
  /\ Handler = ZeroHandler
  /\ regs = PowerOnRegs
  /\ ptr = 0
  /\ calls = <<>>
  /\ call = NoCall
  /\ result = PCA9534_OK
  /\ everInit = FALSE
  /\ toggles = 0
  /\ task = [p \in Procs |-> NoTask]

Next ==
  \/ PLATFORM_LINK_INIT
  \/ PLATFORM_LINK_DEINIT
  \/ PLATFORM_LINK_SEND
  \/ PLATFORM_LINK_RECEIVE
  \/ CallInit({PCA9534_DEVICE_PCA9534, BadDevice}, {0, 8})
  \/ CallDeInit
  \/ CallSetAddressI2C({0, 8})
  \/ CallSetDir({0, 1})
  \/ CallSetDirOne({0, 8}, FlagVals)
  \/ CallRead
  \/ CallWrite({254, 255})
  \/ CallWriteOne({0, 8}, FlagVals)
  \/ CallToggle({1})
  \/ CallToggleOne({0, 8})

Spec == Init /\ [][Next]_vars

(* ------------------------------------------------------------------------ *)
(* SpecInit: setting up and initialising the handler, both devices           *)
(* ------------------------------------------------------------------------ *)
NextInit ==
  \/ PLATFORM_LINK_INIT
  \/ PLATFORM_LINK_DEINIT
  \/ PLATFORM_LINK_SEND
  \/ PLATFORM_LINK_RECEIVE
  \/ CallInit({PCA9534_DEVICE_PCA9534, PCA9534_DEVICE_PCA9534A, BadDevice}, {0, 5, 7, 8, 255})
  \/ CallDeInit
  \/ CallSetAddressI2C({0, 5, 7, 8, 255})

SpecInit == Init /\ [][NextInit]_vars

(* ------------------------------------------------------------------------ *)
(* States of an initialised handler, from which the specifications below    *)
(* start: PCA9534_Init has returned PCA9534_OK for Device and Address, and  *)
(* the output and configuration registers have since been written           *)
(* ------------------------------------------------------------------------ *)
InitialisedHandler(Device, Address) ==
  [Device |-> Device,
   AddressI2C |-> IF Device = PCA9534_DEVICE_PCA9534
                  THEN BitOr(PCA9534_I2C_ADDRESS_BASE, Address)
                  ELSE BitOr(PCA9534A_I2C_ADDRESS_BASE, Address),
   Platform |-> [Init |-> TRUE, DeInit |-> TRUE, Send |-> TRUE, Receive |-> TRUE]]

Initialised(Device, Address, output, configuration) ==
  /\ Handler = InitialisedHandler(Device, Address)
  /\ regs = [PowerOnRegs EXCEPT ![PCA9534_REG_OUTPUT_PORT] = output,
                                ![PCA9534_REG_CONFIGURATION] = configuration]
  /\ ptr = PCA9534_REG_CONFIGURATION
  /\ calls = <<>>
  /\ call = NoCall
  /\ result = PCA9534_OK
  /\ everInit = TRUE
  /\ toggles = 0
  /\ task = [p \in Procs |-> NoTask]

(* ------------------------------------------------------------------------ *)
(* SpecAddr: PCA9534_SetAddressI2C on every handler Init can leave, with     *)
(* every uint8_t Address                                                    *)
(* ------------------------------------------------------------------------ *)
InitAddr ==
  \E Device \in {PCA9534_DEVICE_PCA9534, PCA9534_DEVICE_PCA9534A}, Address \in 0..7 :
    Initialised(Device, Address, 255, 255)

NextAddr == CallSetAddressI2C(Byte)

SpecAddr == InitAddr /\ [][NextAddr]_vars

(* ------------------------------------------------------------------------ *)
(* SpecDir: the direction functions, from every configuration register       *)
(* value and for every bit position                                          *)
(* ------------------------------------------------------------------------ *)
InitDir ==
  \E configuration \in Byte : Initialised(PCA9534_DEVICE_PCA9534, 3, 255, configuration)

NextDir ==
  \/ CallSetDir(MaskVals)
  \/ CallSetDirOne(0..7, FlagVals)

SpecDir == InitDir /\ [][NextDir]_vars

(* ------------------------------------------------------------------------ *)
(* SpecOut: the output functions, from every output register value and for  *)
(* every bit position                                                       *)
(* ------------------------------------------------------------------------ *)
InitOut ==
  \E output \in Byte : Initialised(PCA9534_DEVICE_PCA9534A, 7, output, 0)

NextOut ==
  \/ CallWriteOne(0..7, FlagVals)
  \/ CallToggle(MaskVals)

SpecOut == InitOut /\ [][NextOut]_vars

(* ------------------------------------------------------------------------ *)
(* SpecTog: PCA9534_ToggleOne, from every output register value and for     *)
(* every bit position                                                       *)
(* ------------------------------------------------------------------------ *)
NextTog == CallToggleOne(0..7)

SpecTog == InitOut /\ [][NextTog]_vars

(* ------------------------------------------------------------------------ *)
(* SpecInt8: PCA9534_Write and PCA9534_Read over a transport one call of     *)
(* which returns any int8_t value                                           *)
(* ------------------------------------------------------------------------ *)
\* The range of int8_t, the return type of the transport functions.
INT8_MIN == -128
INT8_MAX == 127
Int8 == INT8_MIN..INT8_MAX

\* The behaviours of the transport over n calls in which call k returns r, any
\* int8_t value, and the other calls return 0; m says whether a call that
\* returned a positive r has moved its bytes.
OneRetOf ==
  [n \in 1..2 |->
     {[rets |-> [i \in 1..n |-> IF i = x[1] THEN x[2] ELSE 0],
       moved |-> [i \in 1..n |-> i = x[1] /\ x[3]]] :
        x \in {y \in (1..n) \X Int8 \X BOOLEAN : y[3] => y[2] > 0}}]

CtxOne(o) == [Ctx(o.rets) EXCEPT !.moved = o.moved]

CallWriteInt8(Datas) ==
  \E Data \in Datas, o \in OneRetOf[1] :
    /\ BusReady
    /\ Returned("Write", Data, 0, 0, PCA9534_Write(CtxOne(o), Data))

CallReadInt8 ==
  \E o \in OneRetOf[2] :
    /\ BusReady
    /\ Returned("Read", 1, 0, 0, PCA9534_Read(CtxOne(o), TRUE))

InitInt8 == Initialised(PCA9534_DEVICE_PCA9534, 0, 255, 0)

NextInt8 ==
  \/ CallWriteInt8({85})
  \/ CallReadInt8

SpecInt8 == InitInt8 /\ [][NextInt8]_vars

(* ------------------------------------------------------------------------ *)
(* SpecRace: two execution contexts call PCA9534_WriteOne on the same        *)
(* handler with nothing serialising them; one transport call is one step    *)
(* ------------------------------------------------------------------------ *)
\* Faulty variant of WriteOne_Reg: the branches of if (Value) are swapped.
WriteOne_Reg_Swapped(Reg, Pos, Value) ==
  IF Value # 0 THEN ToU8(BitAnd(Reg, BitNot(Shl1(Pos))))
  ELSE ToU8(BitOr(Reg, Shl1(Pos)))

\* Reg after if (Value) Reg |= (1 << Pos); else Reg &= ~(1 << Pos);
WriteOne_Reg(Reg, Pos, Value) ==
  IF Value # 0 THEN ToU8(BitOr(Reg, Shl1(Pos)))
  ELSE ToU8(BitAnd(Reg, BitNot(Shl1(Pos))))

\* Context p has returned res from its call.
TaskDone(p, res) == [task[p] EXCEPT !.pc = "done", !.res = res]

\* Context p enters PCA9534_WriteOne(Handler, Pos, Value): the Pos check and
\* uint8_t Reg = 0.
WriteOne_Call(p, Positions, Values) ==
  \E Pos \in Positions, Value \in Values :
    /\ task[p].pc = "idle"
    /\ BusReady \/ Pos > 7
    /\ task' = [task EXCEPT ![p] =
                  IF Pos > 7
                  THEN [@ EXCEPT !.pc = "done", !.Pos = Pos, !.Value = Value,
                                 !.res = PCA9534_INVALID_PARAM]
                  ELSE [@ EXCEPT !.pc = "ReadReg_Send", !.Pos = Pos, !.Value = Value,
                                 !.Reg = 0]]
    /\ UNCHANGED <<Handler, regs, ptr, calls, call, result, everInit, toggles>>

\* The Send of PCA9534_ReadReg in context p.
WriteOne_ReadReg_Send(p) ==
  \E ret \in RetVals :
    LET s == Platform_Send(Ctx(<<ret>>), Handler.AddressI2C, <<PCA9534_REG_OUTPUT_PORT>>)
    IN /\ task[p].pc = "ReadReg_Send"
       /\ regs' = s.c.regs
       /\ ptr' = s.c.ptr
       /\ task' = [task EXCEPT ![p] = IF s.ret < 0 THEN TaskDone(p, PCA9534_FAIL)
                                      ELSE [@ EXCEPT !.pc = "ReadReg_Receive"]]
       /\ UNCHANGED <<Handler, calls, call, result, everInit, toggles>>

\* The Receive of PCA9534_ReadReg in context p, and the update of the local
\* Reg that follows it.
WriteOne_ReadReg_Receive(p) ==
  \E ret \in RetVals :
    LET r == Platform_Receive(Ctx(<<ret>>), Handler.AddressI2C, task[p].Reg)
    IN /\ task[p].pc = "ReadReg_Receive"
       /\ task' = [task EXCEPT ![p] =
                     IF r.ret < 0 THEN TaskDone(p, PCA9534_FAIL)
                     ELSE [@ EXCEPT !.pc = "WriteReg_Send",
                                    !.Reg = WriteOne_Reg(r.Data, task[p].Pos, task[p].Value)]]
       /\ UNCHANGED <<Handler, regs, ptr, calls, call, result, everInit, toggles>>

\* The Send of PCA9534_WriteReg (through PCA9534_Write) in context p, after
\* which the call returns.  A context that has read the register and not yet
\* written it notes that this write fell in between.
WriteOne_WriteReg_Send(p) ==
  \E ret \in RetVals :
    LET w == Platform_Send(Ctx(<<ret>>), Handler.AddressI2C,
                           <<PCA9534_REG_OUTPUT_PORT, task[p].Reg>>)
    IN /\ task[p].pc = "WriteReg_Send"
       /\ regs' = w.c.regs
       /\ ptr' = w.c.ptr
       /\ task' = [q \in Procs |->
                     IF q = p
                     THEN TaskDone(p, IF w.ret < 0 THEN PCA9534_FAIL ELSE PCA9534_OK)
                     ELSE IF task[q].pc = "WriteReg_Send" /\ Moves(Ctx(<<ret>>))
                       THEN [task[q] EXCEPT !.overlap = TRUE]
                     ELSE task[q]]
       /\ UNCHANGED <<Handler, calls, call, result, everInit, toggles>>

InitRace ==
  \E output \in MaskVals : Initialised(PCA9534_DEVICE_PCA9534, 0, output, 0)

NextRace ==
  \E p \in Procs :
    \/ WriteOne_Call(p, 0..7, {1})
    \/ WriteOne_ReadReg_Send(p)
    \/ WriteOne_ReadReg_Receive(p)
    \/ WriteOne_WriteReg_Send(p)

SpecRace == InitRace /\ [][NextRace]_vars

(* ------------------------------------------------------------------------ *)
(* Properties                                                               *)
(* ------------------------------------------------------------------------ *)
\* baseAddress(device): 0x20 for the PCA9534, 0x38 for the PCA9534A.
BaseAddress(Device) ==
  IF Device = PCA9534_DEVICE_PCA9534 THEN PCA9534_I2C_ADDRESS_BASE
  ELSE PCA9534A_I2C_ADDRESS_BASE

KnownDevice(Device) ==
  Device = PCA9534_DEVICE_PCA9534 \/ Device = PCA9534_DEVICE_PCA9534A

\* The transport call: a send of the bytes Data to the slave at Address.
IsSend(x, Address, Data) ==
  x.fn = "Send" /\ x.Address = Address /\ x.Data = Data /\ x.Len = Len(Data)

\* C1: whenever Init returns Ok, the transport calls it made are the
\* transport-init call (one, and only when one is linked) followed by exactly
\* three 2-byte sends to the resolved slave address, [0x01, 0xFF], [0x02, 0x00]
\* and [0x03, 0xFF] in this order, and nothing else.
C1_InitOkTransportCalls ==
  (call.fn = "Init" /\ result = PCA9534_OK) =>
    LET k == IF Handler.Platform.Init THEN 1 ELSE 0
        slave == BaseAddress(call.b) + call.c
    IN /\ Len(calls) = k + 3
       /\ k = 1 => calls[1].fn = "Init"
       /\ IsSend(calls[k + 1], slave, <<1, 255>>)
       /\ IsSend(calls[k + 2], slave, <<2, 0>>)
       /\ IsSend(calls[k + 3], slave, <<3, 255>>)

\* An Init of a PCA9534A with address pins 5 and a linked transport init has
\* returned Ok.
C1_Witness ==
  /\ call.fn = "Init" /\ result = PCA9534_OK
  /\ call.b = PCA9534_DEVICE_PCA9534A /\ call.c = 5
  /\ Handler.Platform.Init

\* C2: a public operation called with an out-of-contract parameter returns
\* InvalidParam and makes no transport call: Init with an unknown device tag,
\* with address pins above 7 or with Send or Receive not linked; SetDirOne,
\* WriteOne and ToggleOne with a position above 7; Read with a NULL data pointer.
C2_InvalidParamNoTransport ==
  LET bad ==
        \/ /\ call.fn = "Init"
           /\ \/ ~KnownDevice(call.b)
              \/ call.c > 7
              \/ ~Handler.Platform.Send
              \/ ~Handler.Platform.Receive
        \/ call.fn \in {"SetDirOne", "WriteOne", "ToggleOne"} /\ call.a > 7
        \/ call.fn = "Read" /\ call.a = 0
  IN bad => (result = PCA9534_INVALID_PARAM /\ calls = <<>>)

\* A ToggleOne with position 8 has returned on a handler whose transport is
\* fully linked.
C2_Witness ==
  /\ call.fn = "ToggleOne" /\ call.a = 8
  /\ Handler.Platform.Send /\ Handler.Platform.Receive
  /\ result = PCA9534_INVALID_PARAM

BusFunctions ==
  {"Init", "SetDir", "SetDirOne", "Read", "Write", "WriteOne", "Toggle", "ToggleOne"}

\* C3: in every public operation that uses the bus, the first transport call
\* that reports failure (a negative return of the transport init, of a send or
\* of a receive) is the last transport call of the operation, and the
\* operation returns Fail.
C3_FailStopsOperation ==
  call.fn \in BusFunctions =>
    \A i \in 1..Len(calls) :
      calls[i].ret < 0 => (i = Len(calls) /\ result = PCA9534_FAIL)

\* A Toggle whose register-address send has failed.
C3_Witness ==
  /\ call.fn = "Toggle"
  /\ Len(calls) = 1 /\ calls[1].fn = "Send" /\ calls[1].ret < 0
  /\ result = PCA9534_FAIL

\* C4: in every state after a first successful Init, whatever public
\* operations followed, the handler's AddressI2C is baseAddress(Device) | p for
\* some p in 0..7, Device being the handler's current device.  (The low three
\* bits of both base addresses are 0, so base | p = base + p.)
C4_AddressMatchesDevice ==
  everInit =>
    /\ KnownDevice(Handler.Device)
    /\ \E p \in 0..7 : Handler.AddressI2C = BaseAddress(Handler.Device) + p

\* C5: SetAddressI2C on a handler of either device makes no transport call;
\* with address pins 0..7 it returns Ok and sets AddressI2C to
\* baseAddress(Device) | pins; with address pins 8..255 it returns InvalidParam
\* and leaves AddressI2C as it was.
C5_SetAddressI2C ==
  [][call'.fn = "SetAddressI2C" =>
       /\ calls' = <<>>
       /\ Handler'.Device = Handler.Device
       /\ IF call'.a <= 7
          THEN /\ result' = PCA9534_OK
               /\ Handler'.AddressI2C = BaseAddress(Handler.Device) + call'.a
          ELSE /\ result' = PCA9534_INVALID_PARAM
               /\ Handler'.AddressI2C = Handler.AddressI2C]_vars

\* A SetAddressI2C with address pins 8 has returned on a PCA9534A handler.
C5_Witness ==
  /\ call.fn = "SetAddressI2C" /\ call.a = 8
  /\ Handler.Device = PCA9534_DEVICE_PCA9534A
  /\ result = PCA9534_INVALID_PARAM

\* C6: SetDir(dirMask) makes exactly one transport call, the 2-byte send
\* [0x03, (~dirMask) mod 256] to the handler's AddressI2C ((~m) mod 256 is
\* 255 - m); after a successful call pin i is an output (configuration bit i
\* is 0) exactly when bit i of dirMask is 1.
C6_SetDirWritesComplement ==
  call.fn = "SetDir" =>
    /\ Len(calls) = 1
    /\ IsSend(calls[1], Handler.AddressI2C, <<3, 255 - call.a>>)
    /\ result = PCA9534_OK =>
         \A i \in 0..7 :
           (Bit(regs[PCA9534_REG_CONFIGURATION], i) = 0) <=> (Bit(call.a, i) = 1)

\* A SetDir(0x55) has returned Ok.
C6_Witness ==
  call.fn = "SetDir" /\ call.a = 85 /\ result = PCA9534_OK

\* C7: after a successful SetDirOne(pos, dir) the pin pos has the requested
\* direction: configuration bit pos is 0 (output) when dir is non-zero and
\* 1 (input) when dir is 0.
C7_SetDirOneSetsDirection ==
  (call.fn = "SetDirOne" /\ result = PCA9534_OK) =>
    Bit(regs[PCA9534_REG_CONFIGURATION], call.a) = (IF call.b # 0 THEN 0 ELSE 1)

\* C8: a successful SetDirOne(pos, dir) leaves the other 7 bits of the
\* configuration register as they were before the call.
C8_SetDirOneKeepsOtherBits ==
  [][(call'.fn = "SetDirOne" /\ result' = PCA9534_OK) =>
       \A i \in 0..7 :
         i # call'.a => Bit(regs'[PCA9534_REG_CONFIGURATION], i)
                          = Bit(regs[PCA9534_REG_CONFIGURATION], i)]_vars

\* The transport call: a receive of one byte from the slave at Address.
IsReceive(x, Address) ==
  x.fn = "Receive" /\ x.Address = Address /\ x.Len = 1 /\ Len(x.Data) = 1

\* v with bit pos set to b, by arithmetic on the bit's weight.
WithBit(v, pos, b) == v - Bit(v, pos) * (2 ^ pos) + b * (2 ^ pos)

\* C9: a successful WriteOne(pos, value), v being the output register value
\* the device returned to it, makes exactly one output-register write, its
\* last transport call: [0x01, v | (1 << pos)] when value is non-zero and
\* [0x01, v & ~(1 << pos)] when value is 0; the output register then holds
\* that byte, whose other 7 bits are those of v.
C9_WriteOneReadModifyWrite ==
  (call.fn = "WriteOne" /\ result = PCA9534_OK) =>
    /\ Len(calls) = 3
    /\ IsSend(calls[1], Handler.AddressI2C, <<1>>)
    /\ IsReceive(calls[2], Handler.AddressI2C)
    /\ LET v == calls[2].Data[1]
           w == WithBit(v, call.a, IF call.b # 0 THEN 1 ELSE 0)
       IN /\ IsSend(calls[3], Handler.AddressI2C, <<1, w>>)
          /\ regs[PCA9534_REG_OUTPUT_PORT] = w
          /\ \A i \in 0..7 :
               i # call.a => Bit(regs[PCA9534_REG_OUTPUT_PORT], i) = Bit(v, i)

\* A WriteOne(5, 0) has returned Ok on a device whose output register read
\* back 0xFF.
C9_Witness ==
  /\ call.fn = "WriteOne" /\ call.a = 5 /\ call.b = 0 /\ result = PCA9534_OK
  /\ Len(calls) = 3 /\ calls[2].Data = <<255>>
  /\ regs[PCA9534_REG_OUTPUT_PORT] = 223

\* C10: a successful Toggle(mask) leaves the output register at v XOR mask, v
\* being its value before the call; a second successful Toggle(mask) right
\* after it leaves the output register at v again.
C10_ToggleTwiceRestores ==
  [][(call'.fn = "Toggle" /\ result' = PCA9534_OK) =>
       /\ \A i \in 0..7 :
            Bit(regs'[PCA9534_REG_OUTPUT_PORT], i)
              = (Bit(regs[PCA9534_REG_OUTPUT_PORT], i) + Bit(call'.a, i)) % 2
       /\ (call.fn = "Toggle" /\ result = PCA9534_OK /\ call.a = call'.a) =>
            regs'[PCA9534_REG_OUTPUT_PORT] = calls[2].Data[1]]_vars

\* The second of two successive successful Toggle(0x55) has returned, the
\* first having read back 0xF0.
C10_Witness ==
  /\ toggles = 2
  /\ call.fn = "Toggle" /\ call.a = 85 /\ result = PCA9534_OK
  /\ Len(calls) = 3 /\ calls[2].Data = <<165>>
  /\ regs[PCA9534_REG_OUTPUT_PORT] = 240

\* C11: for every pos in 0..7, from every output register value and under
\* every pattern of transport results, ToggleOne(pos) makes the transport
\* calls (slave address, bytes, order) and returns the result that
\* Toggle(1 << pos) makes and returns from that state when the transport
\* gives it the same results, and leaves the registers as Toggle(1 << pos)
\* leaves them.
C11_ToggleOneAsToggle ==
  [][(call'.fn = "ToggleOne" /\ call'.a <= 7) =>
       LET rets == [i \in 1..Len(calls') |-> calls'[i].ret]
           t == PCA9534_Toggle(Ctx(rets), 2 ^ call'.a)
       IN /\ calls' = t.c.calls
          /\ result' = t.res
          /\ regs' = t.c.regs]_vars

\* A ToggleOne(7) has returned Ok on a device whose output register read
\* back 0xFF.
C11_Witness ==
  /\ call.fn = "ToggleOne" /\ call.a = 7 /\ result = PCA9534_OK
  /\ Len(calls) = 3 /\ calls[2].Data = <<255>>
  /\ IsSend(calls[3], Handler.AddressI2C, <<1, 127>>)

\* The transport calls the claims on return values are about.
SendOrReceive(x) == x.fn = "Send" \/ x.fn = "Receive"

BothOk ==
  /\ \A p \in Procs : task[p].pc = "done" /\ task[p].res = PCA9534_OK /\ task[p].Value # 0
  /\ task[1].Pos # task[2].Pos

\* C13: WriteOne is not atomic.  When two contexts have called WriteOne(p1, 1)
\* and WriteOne(p2, 1), p1 # p2, on the same device, each transport call one
\* step, and both have returned Ok, a bit of the two that is not set in the
\* output register was lost in the one way the claim gives: the context that
\* set it wrote between the other context's register read and register write;
\* and at most one of the two bits is lost.
\* (That this happens is C13_Witness, a state TLC reaches.)
C13_LostUpdateByInterleaving ==
  BothOk =>
    /\ \A p \in Procs :
         Bit(regs[PCA9534_REG_OUTPUT_PORT], task[p].Pos) = 0 =>
           \E q \in Procs \ {p} : task[q].overlap
    /\ \E p \in Procs : Bit(regs[PCA9534_REG_OUTPUT_PORT], task[p].Pos) = 1

\* Both calls have returned Ok and the output register does not have both
\* bits set: WriteOne(0, 1) and WriteOne(1, 1) from 0x00 have left 0x02.
C13_Witness ==
  /\ BothOk
  /\ task[1].Pos = 0 /\ task[2].Pos = 1
  /\ regs[PCA9534_REG_OUTPUT_PORT] = 2
  /\ ~(Bit(regs[PCA9534_REG_OUTPUT_PORT], task[1].Pos) = 1
        /\ Bit(regs[PCA9534_REG_OUTPUT_PORT], task[2].Pos) = 1)

====
